---- MODULE Spec2Model ----
(***************************************************************************)
(* The todo store of redux-delete-codealong: the reducer manageTodo with   *)
(* its module-level counter id (README.md, final listing), and the Todo    *)
(* component whose delete button dispatches DELETE_TODO (Todo.js).         *)
(***************************************************************************)
EXTENDS Integers, Sequences, FiniteSets, TLC

(* ---- bounds ---- *)

\* number of ADD_TODO actions reduced since module load (caps the counter id)
MaxId == 3

\* length of the collection of an arbitrary input state (InitAny)
MaxLen == 2

\* length of the collection in the earlier reducers, which have no counter
MaxTodos == 3

\* texts a user may type, the empty text included
Texts == {"", "milk"}

\* ids a DELETE_TODO action may carry: every id ADD_TODO can assign within
\* the bound, and one that is never assigned
DeleteIds == 1 .. (MaxId + 1)

(* ---- state ---- *)

VARIABLES
  state,    \* the store's state, { todos: [...] }
  id,       \* the module-level counter `let id = 0`
  action,   \* the action of the latest reducer call
  prev,     \* the state that call received
  action0,  \* the action of the reducer call before the latest one
  prev0,    \* the state that earlier call received
  clicked,  \* <<props>> of the Todo whose button made the latest call, else << >>
  memo,     \* one earlier reducer call, kept for comparison: << >> or <<call>>
  input,    \* the state object the latest call received, as it is after the call
  log       \* history since module load, <<[added, gone]>>: the items the
            \* ADD_TODO actions asked for, in order, and the ids of added items
            \* later given to a DELETE_TODO; << >> when that history is not known

vars == <<state, id, action, prev, action0, prev0, clicked, memo, input, log>>

(* ---- JavaScript helpers used by the reducer ---- *)

\* mutant: Object.assign({}, b, a), the sources in the wrong order
ObjectAssignFirstWins(a, b) ==
  [k \in (DOMAIN a) \cup (DOMAIN b) |-> IF k \in DOMAIN a THEN a[k] ELSE b[k]]

\* Object.assign({}, a, b): the own properties of a, then those of b on top
ObjectAssign(a, b) ==
  [k \in (DOMAIN a) \cup (DOMAIN b) |-> IF k \in DOMAIN b THEN b[k] ELSE a[k]]

\* mutant: the new element put in front (unshift instead of concat)
concatFront(arr, x) == <<x>> \o arr

\* arr.concat(x) for a non-array x: a new array, x after the elements of arr
concat(arr, x) == arr \o <<x>>

\* mutant: === in place of !==
idDiffersInverted(todo, a) ==
  IF "id" \in DOMAIN a THEN todo.id = a.id ELSE FALSE

\* todo.id !== action.id; an action without the field id carries undefined,
\* which differs from every number
idDiffers(todo, a) ==
  IF "id" \in DOMAIN a THEN todo.id # a.id ELSE TRUE

\* mutant: the elements that pass are put in front of the new array
RECURSIVE filterFromUnshift(_, _, _, _)
filterFromUnshift(arr, a, i, out) ==
  IF i > Len(arr) THEN out
  ELSE filterFromUnshift(arr, a, i + 1,
                         IF idDiffers(arr[i], a) THEN <<arr[i]>> \o out ELSE out)

\* arr.filter(todo => todo.id !== action.id): walks arr from index 0 and
\* pushes the elements that pass the test onto a new array
RECURSIVE filterFrom(_, _, _, _)
filterFrom(arr, a, i, out) ==
  IF i > Len(arr) THEN out
  ELSE filterFrom(arr, a, i + 1,
                  IF idDiffers(arr[i], a) THEN Append(out, arr[i]) ELSE out)

\* mutant: arr.splice(arr.findIndex(todo => todo.id === action.id), 1) on a
\* copy: the first match is removed, and findIndex's -1 removes the last element
filterSplice(arr, a) ==
  LET hits == {i \in DOMAIN arr : ~idDiffers(arr[i], a)}
      at   == IF hits = {} THEN Len(arr)
              ELSE CHOOSE i \in hits : \A j \in hits : i <= j
  IN  [k \in 1 .. (IF arr = << >> THEN 0 ELSE Len(arr) - 1) |->
         IF k < at THEN arr[k] ELSE arr[k + 1]]

filter(arr, a) == filterFrom(arr, a, 1, << >>)

(* ---- the reducer ---- *)

\* mutant: the id computed from the state, one more than the largest id in it
addTodoMaxId(s, a, n) ==
  LET ids  == {s.todos[i].id : i \in DOMAIN s.todos}
      next == IF ids = {} THEN 1
              ELSE 1 + CHOOSE x \in ids : \A y \in ids : y <= x
      todo == ObjectAssign(a.todo, [id |-> next])
  IN  [state |-> [todos |-> concat(s.todos, todo)], id |-> n + 1]

\* mutant: the id taken from the length of the collection, not from the counter
addTodoLengthId(s, a, n) ==
  LET todo == ObjectAssign(a.todo, [id |-> Len(s.todos) + 1])
  IN  [state |-> [todos |-> concat(s.todos, todo)], id |-> n + 1]

\* case 'ADD_TODO': id++; todo = Object.assign({}, action.todo, {id: id});
\* return { todos: state.todos.concat(todo) }
addTodo(s, a, n) ==
  LET todo == ObjectAssign(a.todo, [id |-> n + 1])
  IN  [state |-> [todos |-> concat(s.todos, todo)], id |-> n + 1]

\* mutant: the filter of the first lesson step kept, every todo with the text
\* of the todo that has the id is removed
deleteTodoByText(s, a, n) ==
  LET texts == {s.todos[i].text : i \in {j \in DOMAIN s.todos : s.todos[j].id = a.id}}
  IN  [state |-> [todos |-> SelectSeq(s.todos, LAMBDA t : t.text \notin texts)],
       id |-> n]

\* mutant: after the filter the todos left are numbered anew from 1
deleteTodoRenumber(s, a, n) ==
  LET kept == filter(s.todos, a)
  IN  [state |-> [todos |-> [k \in DOMAIN kept |-> [kept[k] EXCEPT !.id = k]]],
       id |-> n]

\* mutant: the todo at position action.id is removed, whatever its id
deleteTodoByIndex(s, a, n) ==
  LET keep == {i \in DOMAIN s.todos : i # a.id}
      nth(k) == CHOOSE i \in keep : Cardinality({j \in keep : j <= i}) = k
  IN  [state |-> [todos |-> [k \in 1 .. Cardinality(keep) |-> s.todos[nth(k)]]],
       id |-> n]

\* case 'DELETE_TODO': todos = state.todos.filter(...); return { todos }
deleteTodo(s, a, n) ==
  [state |-> [todos |-> filter(s.todos, a)], id |-> n]

\* mutant: case 'ADD_TODO' without its return falls through to 'DELETE_TODO'
manageTodoFallsThrough(s, a, n) ==
  CASE a.type = "ADD_TODO"    -> deleteTodo(s, a, n + 1)
    [] a.type = "DELETE_TODO" -> deleteTodo(s, a, n)
    [] OTHER                  -> [state |-> s, id |-> n]

\* mutant: the default branch counts the action too
manageTodoCountsAll(s, a, n) ==
  CASE a.type = "ADD_TODO"    -> addTodo(s, a, n)
    [] a.type = "DELETE_TODO" -> deleteTodo(s, a, n)
    [] OTHER                  -> [state |-> s, id |-> n + 1]

\* mutant: arr.push(x), which grows the array it is called on
pushReceiver(arr, x) == arr \o <<x>>

\* what arr holds after arr.concat(x): concat builds a new array and leaves
\* the one it is called on alone
concatReceiver(arr, x) == arr

\* what arr holds after arr.filter(...): filter builds a new array too
filterReceiver(arr, a) == arr

\* what the state object passed to manageTodo holds once the call returned
manageTodoInput(s, a, n) ==
  CASE a.type = "ADD_TODO" ->
         [todos |-> concatReceiver(s.todos, ObjectAssign(a.todo, [id |-> n + 1]))]
    [] a.type = "DELETE_TODO" ->
         [todos |-> filterReceiver(s.todos, a)]
    [] OTHER -> s

\* manageTodo(state, action) with the counter n it reads and writes:
\* the state returned and the value of the counter afterwards
manageTodo(s, a, n) ==
  CASE a.type = "ADD_TODO"    -> addTodo(s, a, n)
    [] a.type = "DELETE_TODO" -> deleteTodo(s, a, n)
    [] OTHER                  -> [state |-> s, id |-> n]

(* ---- the store and the view ---- *)

\* manageTodo's default parameter: state = { todos: [] }
defaultState == [todos |-> << >>]

\* the action the store reduces when it is created
initAction == [type |-> "@@redux/INIT"]

\* the props of the Todo components on screen, one per todo of the state:
\* Todo.js reads props.id and props.text, which the container fills from the
\* todo it maps over
renderTodos(s) ==
  [i \in DOMAIN s.todos |-> [id |-> s.todos[i].id, text |-> s.todos[i].text]]

\* the history h after the action a: the k-th ADD_TODO asks for item k with
\* the text it carries, a DELETE_TODO marks the id it carries if that id was
\* added before
logged(h, a) ==
  CASE a.type = "ADD_TODO" ->
         [h EXCEPT !.added =
            Append(@, [id |-> Len(@) + 1, text |-> a.todo.text])]
    [] a.type = "DELETE_TODO" /\ "id" \in DOMAIN a ->
         [h EXCEPT !.gone =
            IF \E k \in DOMAIN h.added : h.added[k].id = a.id
            THEN @ \cup {a.id} ELSE @]
    [] OTHER -> h

\* store.dispatch(a): the reducer runs on the current state, the store keeps
\* what it returns
dispatch(a) ==
  LET r == manageTodo(state, a, id)
  IN  /\ state' = r.state
      /\ id' = r.id
      /\ action' = a
      /\ prev' = state
      /\ action0' = action
      /\ prev0' = prev
      /\ input' = manageTodoInput(state, a, id)
      /\ log' = IF log = << >> THEN log ELSE << logged(log[1], a) >>

\* mutant: the id sent in the field payload, as TodosContainer's delete does
handleOnClickPayload(i) ==
  LET props == renderTodos(state)[i]
  IN  /\ dispatch([type |-> "DELETE_TODO", payload |-> props.id])
      /\ clicked' = <<props>>

\* Todo.handleOnClick of the i-th Todo on screen
handleOnClick(i) ==
  LET props == renderTodos(state)[i]
  IN  /\ dispatch([type |-> "DELETE_TODO", id |-> props.id])
      /\ clicked' = <<props>>

(* ---- actions ---- *)

\* the todos an ADD_TODO action may carry: a text, with or without an id field
AddPayloads ==
  [text : Texts] \cup [text : Texts, id : {1}]

\* an ADD_TODO action is dispatched
AddTodo ==
  \E todo \in AddPayloads :
    /\ id < MaxId
    /\ dispatch([type |-> "ADD_TODO", todo |-> todo])
    /\ clicked' = << >>
    /\ UNCHANGED memo

\* the delete button of a Todo on screen is clicked
Click ==
  \E i \in DOMAIN state.todos :
    /\ handleOnClick(i)
    /\ UNCHANGED memo

\* a DELETE_TODO action with any id is dispatched
DeleteTodo ==
  \E n \in DeleteIds :
    /\ dispatch([type |-> "DELETE_TODO", id |-> n])
    /\ clicked' = << >>
    /\ UNCHANGED memo

\* an action of a type the reducer does not know is dispatched
OtherAction ==
  /\ dispatch([type |-> "TOGGLE_TODO", id |-> 1])
  /\ clicked' = << >>
  /\ UNCHANGED memo

\* the latest reducer call is kept for later comparison
Remember ==
  /\ memo' = << [state |-> prev, action |-> action, result |-> state] >>
  /\ memo # memo'
  /\ UNCHANGED <<state, id, action, prev, action0, prev0, clicked,
                 input, log>>

Init ==
  /\ state = defaultState
  /\ id = 0
  /\ action = initAction
  /\ prev = defaultState
  /\ action0 = initAction
  /\ prev0 = defaultState
  /\ clicked = << >>
  /\ memo = << >>
  /\ input = defaultState
  /\ log = << [added |-> << >>, gone |-> {}] >>

Next == AddTodo \/ Click \/ DeleteTodo \/ OtherAction

\* the store as the application creates it: createStore(manageTodo)
Spec == Init /\ [][Next]_vars

\* the ids and the items an arbitrary input state may hold (ids may repeat)
ItemIds == {1, 2}

Items == [id : ItemIds, text : Texts]

\* the arrays of at most n elements of S
RECURSIVE SeqsUpTo(_, _)
SeqsUpTo(S, n) ==
  IF n = 0 THEN {<< >>}
  ELSE LET shorter == SeqsUpTo(S, n - 1)
       IN  shorter \cup {Append(q, x) : q \in shorter, x \in S}

\* the reducer as a function of any state: the store is created with a
\* preloaded state, createStore(manageTodo, preloadedState), at any value of
\* the counter
InitAny ==
  /\ state \in [todos : SeqsUpTo(Items, MaxLen)]
  /\ id \in 0 .. MaxId
  /\ action = initAction
  /\ prev = state
  /\ action0 = initAction
  /\ prev0 = state
  /\ clicked = << >>
  /\ memo = << >>
  /\ input = state
  /\ log = << >>

SpecAny == InitAny /\ [][Next]_vars

\* the store of Spec with one earlier reducer call remembered
NextMemo == Next \/ Remember

SpecMemo == Init /\ [][NextMemo]_vars

(* ---- the first reducer of the lesson: todos are strings ---- *)

\* todo !== action.payload on a string todo; an action without payload
\* carries undefined, which differs from every string
textDiffers(todo, a) ==
  IF "payload" \in DOMAIN a THEN todo # a.payload ELSE TRUE

\* mutant: only the first todo equal to the payload is left out
RECURSIVE filterTextFirst(_, _, _, _)
filterTextFirst(arr, a, i, out) ==
  IF i > Len(arr) THEN out
  ELSE IF textDiffers(arr[i], a)
       THEN filterTextFirst(arr, a, i + 1, Append(out, arr[i]))
       ELSE out \o SubSeq(arr, i + 1, Len(arr))

\* state.todos.filter(todo => todo !== action.payload)
RECURSIVE filterText(_, _, _, _)
filterText(arr, a, i, out) ==
  IF i > Len(arr) THEN out
  ELSE filterText(arr, a, i + 1,
                  IF textDiffers(arr[i], a) THEN Append(out, arr[i]) ELSE out)

\* manageTodo of the text-keyed lesson step
manageTodoText(s, a) ==
  CASE a.type = "ADD_TODO" ->
         [todos |-> concat(s.todos, a.payload.text)]
    [] a.type = "DELETE_TODO" ->
         [todos |-> filterText(s.todos, a, 1, << >>)]
    [] OTHER -> s

\* store.dispatch(a) of a store whose reducer returns the state result for
\* a, and uses neither the counter id nor the history of the final reducer
dispatchTo(result, a) ==
  /\ state' = result
  /\ action' = a
  /\ prev' = state
  /\ action0' = action
  /\ prev0' = prev
  /\ input' = state
  /\ UNCHANGED <<id, memo, log>>

\* store.dispatch(a) on the store of this step
dispatchText(a) == dispatchTo(manageTodoText(state, a), a)

\* a todo is created: {type: 'ADD_TODO', payload: {text}}
AddTodoText ==
  \E t \in Texts :
    /\ Len(state.todos) < MaxTodos
    /\ dispatchText([type |-> "ADD_TODO", payload |-> [text |-> t]])
    /\ clicked' = << >>

\* the DELETE button of a Todo on screen: props.delete(props.text), which
\* dispatches {type: 'DELETE_TODO', payload: todoText}
ClickText ==
  \E i \in DOMAIN state.todos :
    LET props == [text |-> state.todos[i]]
    IN  /\ dispatchText([type |-> "DELETE_TODO", payload |-> props.text])
        /\ clicked' = <<props>>

\* a DELETE_TODO action with a text no todo has
DeleteTodoText ==
  /\ dispatchText([type |-> "DELETE_TODO", payload |-> "eggs"])
  /\ clicked' = << >>

\* an action of a type the reducer does not know
OtherActionText ==
  /\ dispatchText([type |-> "TOGGLE_TODO"])
  /\ clicked' = << >>

NextText == AddTodoText \/ ClickText \/ DeleteTodoText \/ OtherActionText

SpecText == Init /\ [][NextText]_vars

(* ---- the second reducer of the lesson: todos are {id, text} objects, ---- *)
(* ---- DELETE_TODO still compares the todo itself with the payload     ---- *)

\* the values uuid() may return
Uuids == {"u1", "u2"}

\* a payload value of a DELETE_TODO action, with its JavaScript type: a string
\* (a text or an id), or a reference to the todo object at a position of
\* state.todos
StringValue(v) == [typeof |-> "string", value |-> v]

ObjectAt(i) == [typeof |-> "object", at |-> i]

\* mutant: the text of the todo compared with the payload
todoTextDiffers(arr, i, a) ==
  IF "payload" \notin DOMAIN a THEN TRUE
  ELSE IF a.payload.typeof = "string" THEN arr[i].text # a.payload.value
  ELSE TRUE

\* todo !== action.payload for the todo object arr[i]: !== converts nothing,
\* an object is strictly equal to itself only, never to a string or undefined
todoDiffers(arr, i, a) ==
  IF "payload" \notin DOMAIN a THEN TRUE
  ELSE IF a.payload.typeof = "object" THEN a.payload.at # i
  ELSE TRUE

\* state.todos.filter(todo => todo !== action.payload)
RECURSIVE filterTodo(_, _, _, _)
filterTodo(arr, a, i, out) ==
  IF i > Len(arr) THEN out
  ELSE filterTodo(arr, a, i + 1,
                  IF todoDiffers(arr, i, a) THEN Append(out, arr[i]) ELSE out)

\* manageTodo of the uuid lesson step, u being what uuid() returns
manageTodoUuid(s, a, u) ==
  CASE a.type = "ADD_TODO" ->
         [todos |-> concat(s.todos, [id |-> u, text |-> a.payload.text])]
    [] a.type = "DELETE_TODO" ->
         [todos |-> filterTodo(s.todos, a, 1, << >>)]
    [] OTHER -> s

\* store.dispatch(a) on the store of this step
dispatchUuid(a) ==
  \E u \in Uuids : dispatchTo(manageTodoUuid(state, a, u), a)

\* a todo is created
AddTodoUuid ==
  \E t \in Texts :
    /\ Len(state.todos) < MaxTodos
    /\ dispatchUuid([type |-> "ADD_TODO", payload |-> [text |-> t]])
    /\ clicked' = << >>

\* the DELETE button of the updated Todo: props.delete(props.todo.id)
ClickUuid ==
  \E i \in DOMAIN state.todos :
    LET props == [todo |-> state.todos[i]]
    IN  /\ dispatchUuid([type |-> "DELETE_TODO",
                         payload |-> StringValue(props.todo.id)])
        /\ clicked' = <<props.todo>>

\* delete called with a text, as the Todo of the first step did
DeleteUuidText ==
  \E t \in Texts :
    /\ dispatchUuid([type |-> "DELETE_TODO", payload |-> StringValue(t)])
    /\ clicked' = << >>

\* delete called with a todo object of the state itself
DeleteUuidObject ==
  \E i \in DOMAIN state.todos :
    /\ dispatchUuid([type |-> "DELETE_TODO", payload |-> ObjectAt(i)])
    /\ clicked' = << >>

NextUuid == AddTodoUuid \/ ClickUuid \/ DeleteUuidText \/ DeleteUuidObject

SpecUuid == Init /\ [][NextUuid]_vars

(* ---- the third reducer of the lesson: DELETE_TODO keyed by action.payload ---- *)

\* mutant: the id read from action.id
payloadDiffersById(todo, a) == idDiffers(todo, a)

\* todo.id !== action.payload, the payload being an id; a missing field is
\* undefined on either side
payloadDiffers(todo, a) ==
  IF "payload" \in DOMAIN a
  THEN "id" \notin DOMAIN todo \/ todo.id # a.payload
  ELSE "id" \in DOMAIN todo

\* state.todos.filter(todo => todo.id !== action.payload)
RECURSIVE filterPayload(_, _, _, _)
filterPayload(arr, a, i, out) ==
  IF i > Len(arr) THEN out
  ELSE filterPayload(arr, a, i + 1,
                     IF payloadDiffers(arr[i], a) THEN Append(out, arr[i]) ELSE out)

\* case 'DELETE_TODO' of that reducer
deleteTodoPayload(s, a) == [todos |-> filterPayload(s.todos, a, 1, << >>)]

(* ---- properties ---- *)

\* the collection the latest reducer call returned, and the one it received
T == state.todos

P == prev.todos

\* the number of positions of q that hold x
Count(q, x) == Cardinality({i \in DOMAIN q : q[i] = x})

Range(q) == {q[i] : i \in DOMAIN q}

IsDelete(a) == a.type = "DELETE_TODO" /\ "id" \in DOMAIN a

IsAdd(a) == a.type = "ADD_TODO"

\* C1: DELETE_TODO(id) returns exactly the items of the prior collection whose
\* id differs from id: every item with that id is gone, and every other item
\* is there as many times as before.
C1_DeleteRemovesExactlyId ==
  IsDelete(action) =>
    \A x \in Range(P) \cup Range(T) :
      Count(T, x) = IF x.id = action.id THEN 0 ELSE Count(P, x)

\* a delete that removed several items with the given id and kept another
C1_Witness ==
  /\ IsDelete(action)
  /\ Cardinality({i \in DOMAIN P : P[i].id = action.id}) >= 2
  /\ \E i \in DOMAIN P : P[i].id # action.id

\* C2: a click on the delete button of a Todo on screen dispatches DELETE_TODO
\* with that Todo's id, and in the resulting state no todo has that id while
\* every other todo is still there.
C2_ClickDeletesThatTodo ==
  clicked # << >> =>
    LET props == clicked[1]
    IN  /\ \E i \in DOMAIN P : P[i].id = props.id /\ P[i].text = props.text
        /\ action = [type |-> "DELETE_TODO", id |-> props.id]
        /\ \A j \in DOMAIN T : T[j].id # props.id
        /\ \A i \in DOMAIN P : P[i].id # props.id => Count(T, P[i]) = 1

\* a click on one of several todos
C2_Witness ==
  /\ clicked # << >>
  /\ Len(P) >= 2
  /\ Len(T) = Len(P) - 1

\* C3: in every state reached from the empty collection the ids of the
\* collection are pairwise distinct.
C3_IdsDistinct ==
  \A i, j \in DOMAIN T : i # j => T[i].id # T[j].id

\* several todos, one of them added after a delete and from an action that
\* carried an id of its own
C3_Witness ==
  /\ Len(T) >= 2
  /\ id > Len(T)
  /\ IsAdd(action)
  /\ "id" \in DOMAIN action.todo

\* C4: ADD_TODO returns the prior collection, unchanged and in order,
\* followed by exactly one new item, which carries the given text.
C4_AddAppendsOne ==
  IsAdd(action) =>
    /\ Len(T) = Len(P) + 1
    /\ \A i \in DOMAIN P : T[i] = P[i]
    /\ T[Len(T)].text = action.todo.text

\* an add of the empty text to a collection that held items
C4_Witness ==
  /\ IsAdd(action)
  /\ action.todo.text = ""
  /\ Len(P) >= 2

\* C5: DELETE_TODO with an id no item has returns a collection equal to the
\* input in content and order.
C5_DeleteAbsentIsNoOp ==
  (IsDelete(action) /\ \A i \in DOMAIN P : P[i].id # action.id) => T = P

\* a delete of an absent id from a collection that held items
C5_Witness ==
  /\ IsDelete(action)
  /\ \A i \in DOMAIN P : P[i].id # action.id
  /\ Len(P) >= 2

\* C6: an action of another type leaves the state, hence the collection, and
\* the counter from which the next ADD_TODO takes its id as they were.
C6_OtherActionChangesNothing ==
  [][action'.type \notin {"ADD_TODO", "DELETE_TODO"}
       => (state' = state /\ id' = id)]_vars

\* an unknown action reduced on a collection that held items
C6_Witness ==
  /\ action.type = "TOGGLE_TODO"
  /\ Len(T) >= 1
  /\ id >= 1
  /\ T = P

\* C7: two reducer calls with equal state and equal action return equal
\* states, whatever was reduced before or in between.
C7_ReferentiallyTransparent ==
  (memo # << >> /\ memo[1].state = prev /\ memo[1].action = action)
    => memo[1].result = state

\* C8: ADD_TODO followed at once by DELETE_TODO of the id the add assigned
\* gives back the collection as it was before the add.
C8_AddThenDeleteRoundTrip ==
  (IsAdd(action0) /\ IsDelete(action) /\ action.id = P[Len(P)].id)
    => T = prev0.todos

\* such a round trip on a collection that held items
C8_Witness ==
  /\ IsAdd(action0)
  /\ IsDelete(action)
  /\ action.id = P[Len(P)].id
  /\ Len(prev0.todos) >= 1
  /\ Len(P) = Len(prev0.todos) + 1

\* C9: DELETE_TODO(id) applied twice in succession gives the collection that
\* applying it once gives.
C9_DeleteIdempotent ==
  (IsDelete(action0) /\ IsDelete(action) /\ action0.id = action.id) => T = P

\* the same delete twice, the first of which removed something and left
\* something
C9_Witness ==
  /\ IsDelete(action0)
  /\ IsDelete(action)
  /\ action0.id = action.id
  /\ Len(P) < Len(prev0.todos)
  /\ Len(P) >= 1

\* C10: any two items that survive DELETE_TODO(id) stand in the result in
\* the relative order they had in the prior collection.
C10_DeletePreservesOrder ==
  IsDelete(action) =>
    \A j, k \in DOMAIN T :
      j < k => \E i1, i2 \in DOMAIN P :
                 /\ i1 < i2
                 /\ P[i1] = T[j]
                 /\ P[i2] = T[k]

\* a delete that removed an item from between two survivors
C10_Witness ==
  /\ IsDelete(action)
  /\ Len(T) >= 2
  /\ \E i \in DOMAIN P :
       /\ 1 < i
       /\ i < Len(P)
       /\ P[i].id = action.id
       /\ P[i - 1].id # action.id
       /\ P[i + 1].id # action.id

\* C11: in the text-keyed reducer DELETE_TODO with payload t removes every
\* todo whose text is t, all of them when several todos have that text, and
\* keeps the others.
C11_TextDeleteRemovesAllEqual ==
  (action.type = "DELETE_TODO" /\ "payload" \in DOMAIN action) =>
    \A x \in Range(P) \cup Range(T) :
      Count(T, x) = IF x = action.payload THEN 0 ELSE Count(P, x)

\* one click that removed two todos with the same text and kept a third
C11_Witness ==
  /\ clicked # << >>
  /\ "text" \in DOMAIN clicked[1]
  /\ "id" \notin DOMAIN clicked[1]
  /\ Count(P, clicked[1].text) = 2
  /\ Len(T) = 1

\* C12: in the id-keyed reducer, DELETE_TODO with the id of one of several
\* todos that have the same text removes that one and leaves the others with
\* that text in the collection.
C12_SameTextOthersStay ==
  IsDelete(action) =>
    \A i \in DOMAIN P :
      P[i].id = action.id =>
        /\ Count(T, P[i]) = 0
        /\ \A k \in DOMAIN P :
             (k # i /\ P[k].text = P[i].text) => Count(T, P[k]) = 1

\* one of two todos with the same text deleted, the other still there
C12_Witness ==
  /\ IsDelete(action)
  /\ Len(T) = Len(P) - 1
  /\ \E i, k \in DOMAIN P :
       /\ P[i].id = action.id
       /\ k # i
       /\ P[k].text = P[i].text
       /\ Count(T, P[k]) = 1

\* C13: the reducer leaves its input alone: after the call the input state
\* holds the items it held before, in the same order, and every item of the
\* returned collection is an item of the input, id and text as they were,
\* unless it is the one ADD_TODO appended.
C13_InputNotModified ==
  /\ [](input = prev)
  /\ [][\A j \in DOMAIN T' :
          \/ \E i \in DOMAIN T : T[i] = T'[j]
          \/ IsAdd(action') /\ j = Len(T')]_vars

\* an add to, and a delete from, a collection that held items
C13_Witness ==
  /\ IsAdd(action0)
  /\ IsDelete(action)
  /\ Len(prev0.todos) >= 1
  /\ Len(T) = Len(P) - 1
  /\ Len(T) >= 1
  /\ input = prev

\* C14: the k-th ADD_TODO since module load gives its item the id k, whatever
\* id action.todo carries; that id is larger than every id in the collection,
\* and no id once deleted is in the collection again.
C14_IdsNeverReused ==
  /\ IsAdd(action) =>
       /\ T[Len(T)].id = Len(log[1].added)
       /\ \A i \in DOMAIN P : P[i].id < T[Len(T)].id
  /\ \A j \in DOMAIN T : T[j].id \notin log[1].gone

\* an add, from an action carrying an id, right after the newest todo was
\* deleted
C14_Witness ==
  /\ IsAdd(action)
  /\ "id" \in DOMAIN action.todo
  /\ IsDelete(action0)
  /\ action0.id = id - 1
  /\ (id - 1) \in log[1].gone

\* C15: after any sequence of actions from the empty collection, the
\* collection is the items that were added and whose id no later DELETE_TODO
\* carried, in the order of the adds.
C15_MatchesHistory ==
  T = SelectSeq(log[1].added, LAMBDA x : x.id \notin log[1].gone)

\* three adds and a delete of one of the added, two still there
C15_Witness ==
  /\ Len(log[1].added) >= 3
  /\ log[1].gone # {}
  /\ Len(T) = 2

\* C16: in the reducer that stores {id, text} objects and filters with
\* todo !== action.payload, a DELETE_TODO whose payload is a text or an id
\* removes nothing.
C16_ObjectFilterRemovesNothing ==
  (action.type = "DELETE_TODO" /\ "payload" \in DOMAIN action
     /\ action.payload.typeof = "string")
    => T = P

\* a click that sent the id of a todo of the collection, after a delete
\* that sent the text of one
C16_Witness ==
  /\ clicked # << >>
  /\ action.type = "DELETE_TODO"
  /\ action.payload = StringValue(clicked[1].id)
  /\ \E i \in DOMAIN P : P[i] = clicked[1]
  /\ action0.type = "DELETE_TODO"
  /\ action0.payload.typeof = "string"
  /\ \E i \in DOMAIN prev0.todos : prev0.todos[i].text = action0.payload.value
  /\ Len(T) >= 2

\* C17: the action Todo.handleOnClick dispatches removes the clicked todo
\* when reduced by the reducer keyed by action.id, and leaves every todo in
\* the collection when reduced by the reducer keyed by action.payload.
C17_ClickActionNeedsIdKeyedReducer ==
  clicked # << >> =>
    /\ \A j \in DOMAIN T : T[j].id # clicked[1].id
    /\ Len(T) = Len(P) - 1
    /\ "payload" \notin DOMAIN action
    /\ deleteTodoPayload(prev, action).todos = P

\* a click on one of three todos
C17_Witness ==
  /\ clicked # << >>
  /\ "id" \in DOMAIN clicked[1]
  /\ action = [type |-> "DELETE_TODO", id |-> clicked[1].id]
  /\ Len(P) = 3

\* C18: DELETE_TODO(a) then DELETE_TODO(b) gives the collection that
\* DELETE_TODO(b) then DELETE_TODO(a) gives.
C18_DeletesCommute ==
  (IsDelete(action0) /\ IsDelete(action)) =>
    T = deleteTodo(deleteTodo(prev0, action, id).state, action0, id).state.todos

\* two deletes of different ids, each of which removed something, with
\* something left
C18_Witness ==
  /\ IsDelete(action0)
  /\ IsDelete(action)
  /\ action0.id # action.id
  /\ Len(P) < Len(prev0.todos)
  /\ Len(T) < Len(P)
  /\ Len(T) >= 1

====
